---- MODULE Spec2Model ----
(***************************************************************************)
(* Model of gustaf/edges.py (class Edges): the tracked edge table, the     *)
(* cached quantities derived from it, de-duplication of edges, vertex and  *)
(* element pruning, and dashed().                                          *)
(*                                                                         *)
(* Arrays.  A numpy array is a record [shape, data]: shape is the tuple of *)
(* dimensions, data the row-major contents.  Indices stored in arrays are  *)
(* 0-based as in Python; positions of TLA+ sequences are 1-based.  Points  *)
(* are 1-dimensional (one integer coordinate per point).                   *)
(***************************************************************************)
EXTENDS Integers, Sequences, FiniteSets, TLC

VARIABLES
    vertices,              \* self.vertices: sequence of point coordinates
    edges,                 \* self._edges: the tracked edge table
    const_edges,           \* self._const_edges: read-only view of _edges
    modified,              \* per tracked array: properties that have not yet observed its last write
    saved,                 \* cached values of the computed properties
    edges_unique_id,       \* attributes written by get_edges_unique
    edges_unique,
    edges_unique_inverse,
    edges_unique_count,
    outlines,
    call                   \* the last call made on the object: name, arguments, result, error

vars == <<vertices, edges, const_edges, modified, saved, edges_unique_id,
          edges_unique, edges_unique_inverse, edges_unique_count, outlines, call>>

uniqueAttrs == <<edges_unique_id, edges_unique, edges_unique_inverse,
                 edges_unique_count, outlines>>

(***************************************************************************)
(* Bounds                                                                  *)
(***************************************************************************)
NumVerts == 2          \* points of the cloud in the de-duplication runs
MaxRows == 3           \* rows of the edge table in the de-duplication runs

(***************************************************************************)
(* Arrays                                                                  *)
(***************************************************************************)
Range(s) == {s[i] : i \in DOMAIN s}

Iota(n) == [i \in 1..n |-> i]

\* a table given by its rows, all of width k
FromRows(rows, k) ==
    [shape |-> <<Len(rows), k>>,
     data  |-> [p \in 1..(Len(rows) * k) |-> rows[((p - 1) \div k) + 1][((p - 1) % k) + 1]]]

\* row i (1-based) of a 2-dimensional array
Row(a, i) == [j \in 1..a.shape[2] |-> a.data[(i - 1) * a.shape[2] + j]]

\* the rows of a 2-dimensional array
Rows(a) == [i \in 1..a.shape[1] |-> Row(a, i)]

\* a[ids] for a 2-dimensional array a and a sequence of row indices
TakeRows(a, ids) == FromRows([g \in 1..Len(ids) |-> Row(a, ids[g] + 1)], a.shape[2])

\* a[mask] for a sequence a and a boolean sequence of the same length
RECURSIVE MaskSeq(_, _)
MaskSeq(s, mask) ==
    IF s = <<>> THEN <<>>
    ELSE (IF Head(mask) THEN <<Head(s)>> ELSE <<>>) \o MaskSeq(Tail(s), Tail(mask))

\* all sequences over S of length at most n
SeqsUpTo(S, n) == UNION {[1..m -> S] : m \in 0..n}

\* edge tables of at most maxRows rows whose indices all lie in 0..n-1
EdgeTables(n, maxRows) == {FromRows(rows, 2) : rows \in SeqsUpTo([1..2 -> 0..(n - 1)], maxRows)}

NoArray == [shape |-> <<>>, data |-> <<>>]   \* an attribute that has not been set

(***************************************************************************)
(* The tracked arrays and the computed-property cache                      *)
(* (helpers.data.make_tracked_array, helpers.data.ComputedMeshData)        *)
(***************************************************************************)
Arrays == {"vertices", "elements"}
Props == {"centers", "referenced_vertices", "sorted_edges"}

\* the dependency lists with "vertices" left out of the one of centers
DependsWithoutVertices(p) ==
    CASE p = "centers"             -> {"elements"}
      [] p = "referenced_vertices" -> {"vertices", "elements"}
      [] p = "sorted_edges"        -> {"elements"}

\* the dependency lists given to ComputedMeshData.depends_on
Depends(p) ==
    CASE p = "centers"             -> {"vertices", "elements"}
      [] p = "referenced_vertices" -> {"vertices", "elements"}
      [] p = "sorted_edges"        -> {"elements"}

\* ascending sort of one row: position j gets the element that has exactly
\* j - 1 elements before it in the order (ties broken by position)
SortRow(r) ==
    LET before(i) == Cardinality({h \in DOMAIN r : r[h] < r[i] \/ (r[h] = r[i] /\ h < i)})
    IN  [j \in DOMAIN r |-> r[CHOOSE i \in DOMAIN r : before(i) = j - 1]]

\* Edges.sorted_edges: a copy of the table with every row sorted (axis=1)
sorted_edges(es) == FromRows([i \in 1..es.shape[1] |-> SortRow(Row(es, i))], es.shape[2])

RECURSIVE SumSeq(_)
SumSeq(s) == IF s = <<>> THEN 0 ELSE Head(s) + SumSeq(Tail(s))

\* Edges.centers: mean of the points each row refers to
centers(vs, es) ==
    [i \in 1..es.shape[1] |->
        SumSeq([j \in 1..es.shape[2] |-> vs[Row(es, i)[j] + 1]]) \div es.shape[2]]

\* Edges.referenced_vertices: mask of the points some row refers to
referenced_vertices(vs, es) == [v \in 1..Len(vs) |-> (v - 1) \in Range(es.data)]

Compute(p, vs, es) ==
    CASE p = "centers"             -> centers(vs, es)
      [] p = "referenced_vertices" -> referenced_vertices(vs, es)
      [] p = "sorted_edges"        -> sorted_edges(es)

\* a property is recomputed when it was never computed or when one of its
\* dependencies was written since the property last observed it
MustRecompute(p) == p \notin saved.has \/ \E a \in Depends(p) : p \in modified[a]

CacheValue(p) == IF MustRecompute(p) THEN Compute(p, vertices, edges) ELSE saved.val[p]

SavedAfter(p) ==
    IF MustRecompute(p)
    THEN [has |-> saved.has \cup {p}, val |-> [saved.val EXCEPT ![p] = Compute(p, vertices, edges)]]
    ELSE saved

ModifiedAfter(p) ==
    IF MustRecompute(p)
    THEN [a \in Arrays |-> IF a \in Depends(p) THEN modified[a] \ {p} ELSE modified[a]]
    ELSE modified

\* a write to a tracked array marks it modified for every property
ModifiedByWrite(a) == [modified EXCEPT ![a] = Props]

NothingSaved == [has |-> {}, val |-> [p \in Props |-> <<>>]]

AllModified == [a \in Arrays |-> Props]

(***************************************************************************)
(* De-duplication                                                          *)
(***************************************************************************)
\* positions (1-based) of the rows that are the first occurrence of their value
FirstOccurrences(rows) ==
    SelectSeq(Iota(Len(rows)), LAMBDA i : \A j \in 1..(i - 1) : rows[j] # rows[i])

UniqueRowsOf(rows, firsts, k) ==
    [unique  |-> FromRows([g \in 1..Len(firsts) |-> rows[firsts[g]]], k),
     index   |-> [g \in 1..Len(firsts) |-> firsts[g] - 1],
     inverse |-> [i \in 1..Len(rows) |->
                     (CHOOSE g \in 1..Len(firsts) : rows[firsts[g]] = rows[i]) - 1],
     counts  |-> [g \in 1..Len(firsts) |->
                     Cardinality({i \in 1..Len(rows) : rows[i] = rows[firsts[g]]})]]

\* utils.arr.unique_rows: unique rows in first-occurrence order, index of the
\* first occurrence of each, group of every row, size of each group
unique_rows(a) == UniqueRowsOf(Rows(a), FirstOccurrences(Rows(a)), a.shape[2])

\* get_edges_unique taking the rows of edges_unique from the sorted table
UnpackFromSorted(es, sorted, u) ==
    [edges_unique_id      |-> u.index,
     edges_unique         |-> TakeRows(sorted, u.index),
     edges_unique_inverse |-> u.inverse,
     edges_unique_count   |-> u.counts,
     outlines             |-> MaskSeq(u.index, [g \in 1..Len(u.counts) |-> u.counts[g] = 1])]

\* get_edges_unique selecting the outlines by group number instead of by row id
UnpackOutlineGroups(es, sorted, u) ==
    [edges_unique_id      |-> u.index,
     edges_unique         |-> TakeRows(es, u.index),
     edges_unique_inverse |-> u.inverse,
     edges_unique_count   |-> u.counts,
     outlines             |-> MaskSeq([g \in 1..Len(u.counts) |-> g - 1],
                                      [g \in 1..Len(u.counts) |-> u.counts[g] = 1])]

\* the attributes Edges.get_edges_unique assigns: u is the result of
\* unique_rows on the sorted table, the rows are taken from the table itself
Unpack(es, sorted, u) ==
    [edges_unique_id      |-> u.index,
     edges_unique         |-> TakeRows(es, u.index),
     edges_unique_inverse |-> u.inverse,
     edges_unique_count   |-> u.counts,
     outlines             |-> MaskSeq(u.index, [g \in 1..Len(u.counts) |-> u.counts[g] = 1])]

EdgesUnique(es, sorted) == Unpack(es, sorted, unique_rows(sorted))

\* the state change of get_edges_unique(); field selects what the caller gets
\* back.  self.get_edges_sorted() is the cached sorted_edges, whose value is
\* also what sorted_edges leaves in self.edges_sorted
GetEdgesUniqueBody(op, field) ==
    \E r \in {EdgesUnique(edges, CacheValue("sorted_edges"))} :   \* self.get_edges_sorted()
        /\ saved' = SavedAfter("sorted_edges")
        /\ modified' = ModifiedAfter("sorted_edges")
        /\ edges_unique_id' = r.edges_unique_id
        /\ edges_unique' = r.edges_unique
        /\ edges_unique_inverse' = r.edges_unique_inverse
        /\ edges_unique_count' = r.edges_unique_count
        /\ outlines' = r.outlines
        /\ call' = [op |-> op, arg |-> <<>>, ret |-> r[field], err |-> ""]
        /\ UNCHANGED <<vertices, edges, const_edges>>

get_edges_unique == GetEdgesUniqueBody("get_edges_unique", "edges_unique")

get_edges_unique_id == GetEdgesUniqueBody("get_edges_unique_id", "edges_unique_id")

get_edges_unique_inverse == GetEdgesUniqueBody("get_edges_unique_inverse", "edges_unique_inverse")

get_outlines == GetEdgesUniqueBody("get_outlines", "outlines")

NoCall == [op |-> "new", arg |-> <<>>, ret |-> <<>>, err |-> ""]

InitUnique ==
    /\ vertices = [v \in 1..NumVerts |-> 0]
    /\ edges \in EdgeTables(NumVerts, MaxRows)
    /\ const_edges = edges
    /\ modified = AllModified
    /\ saved = NothingSaved
    /\ edges_unique_id = <<>>
    /\ edges_unique = NoArray
    /\ edges_unique_inverse = <<>>
    /\ edges_unique_count = <<>>
    /\ outlines = <<>>
    /\ call = NoCall

NextUnique ==
    \/ get_edges_unique
    \/ get_edges_unique_id
    \/ get_edges_unique_inverse
    \/ get_outlines

SpecUnique == InitUnique /\ [][NextUnique]_vars

UniqueCalled ==
    call.op \in {"get_edges_unique", "get_edges_unique_id", "get_edges_unique_inverse", "get_outlines"}

\* the canonical form of an edge: its two indices in ascending order
Canon(r) == IF r[1] <= r[2] THEN r ELSE <<r[2], r[1]>>

\* number of rows of the table whose canonical form is that of row i (1-based)
CanonCount(es, i) ==
    Cardinality({j \in 1..es.shape[1] : Canon(Row(es, j)) = Canon(Row(es, i))})

\* row i is the first row of the table with its canonical form
CanonFirst(es, i) == \A j \in 1..(i - 1) : Canon(Row(es, j)) # Canon(Row(es, i))

\* C1: after get_edges_unique / get_edges_unique_inverse,
\* edges_unique[edges_unique_inverse] equals edges element-wise, for every table
C1_Reconstruction ==
    UniqueCalled => TakeRows(edges_unique, edges_unique_inverse) = edges

\* C2: a row index is in the result of get_outlines() iff the canonical form
\* of that row occurs exactly once among the canonical forms of all rows
C2_Outlines ==
    UniqueCalled =>
        \A i \in 1..edges.shape[1] : ((i - 1) \in Range(outlines)) <=> (CanonCount(edges, i) = 1)

C2_Witness ==
    /\ call.op = "get_outlines"
    /\ call.ret = outlines
    /\ \E i \in 1..edges.shape[1] : (i - 1) \in Range(outlines) /\ i > 1
    /\ \E i \in 1..edges.shape[1] : CanonCount(edges, i) = 2 /\ Row(edges, i)[1] > Row(edges, i)[2]

\* C3: every row of edges_unique is the original (unsorted) row of the table at
\* the smallest row index among the rows with the same canonical form, and
\* edges_unique_id holds exactly those smallest indices, each once
C3_Orientation ==
    UniqueCalled =>
        /\ Range(edges_unique_id) = {i - 1 : i \in {j \in 1..edges.shape[1] : CanonFirst(edges, j)}}
        /\ Cardinality(Range(edges_unique_id)) = Len(edges_unique_id)
        /\ edges_unique.shape = <<Len(edges_unique_id), 2>>
        /\ \A g \in 1..Len(edges_unique_id) :
              Row(edges_unique, g) = Row(edges, edges_unique_id[g] + 1)

C3_Witness ==
    /\ call.op = "get_edges_unique"
    /\ call.ret = edges_unique
    /\ \E g \in 1..Len(edges_unique_id) :
          /\ Row(edges_unique, g)[1] > Row(edges_unique, g)[2]
          /\ CanonCount(edges, edges_unique_id[g] + 1) = 1
    /\ \E g \in 1..Len(edges_unique_id) :
          /\ CanonCount(edges, edges_unique_id[g] + 1) = 2
          /\ edges_unique_id[g] > 0

(***************************************************************************)
(* Writes to the tracked arrays, and reads of the cached quantities        *)
(***************************************************************************)
CacheVerts == 2        \* points of the cloud in the cache runs
CacheRows == 1         \* rows of the edge tables in the cache runs

Coords == {0, 2}       \* coordinates written to the points (even, so that means are exact)

\* helpers.data.make_tracked_array(es, settings.INT_DTYPE): the integer array
\* with the given contents, tracked
make_tracked_array(es) == [shape |-> es.shape, data |-> es.data]

\* self.vertices[i] = x
write_vertices(i, x) ==
    /\ i \in 1..Len(vertices)
    /\ vertices' = [vertices EXCEPT ![i] = x]
    /\ modified' = ModifiedByWrite("vertices")
    /\ call' = [op |-> "write_vertices", arg |-> <<>>, ret |-> <<>>, err |-> ""]
    /\ UNCHANGED <<edges, const_edges, saved, uniqueAttrs>>

\* self.edges[r, c] = x, p the position of (r, c) in the storage; the
\* read-only view shares the storage
write_edges(p, x) ==
    /\ p \in DOMAIN edges.data
    /\ edges' = [edges EXCEPT !.data[p] = x]
    /\ const_edges' = edges'
    /\ modified' = ModifiedByWrite("elements")
    /\ call' = [op |-> "write_edges", arg |-> <<>>, ret |-> <<>>, err |-> ""]
    /\ UNCHANGED <<vertices, saved, uniqueAttrs>>

\* the state change of the edges setter
SetEdges(op, es) ==
    /\ edges' = make_tracked_array(es)
    /\ const_edges' = edges'
    /\ modified' = ModifiedByWrite("elements")
    /\ call' = [op |-> op, arg |-> es, ret |-> <<>>, err |-> ""]
    /\ UNCHANGED <<vertices, saved, uniqueAttrs>>

\* self.edges = es
edges_setter(es) == SetEdges("edges.setter", es)

\* self.elements = elems: setattr(self, "edges", elems)
elements_setter(elems) == SetEdges("elements.setter", elems)

\* a call of a computed property: the cached value or a fresh one
CallComputed(p) ==
    /\ call' = [op |-> p, arg |-> <<>>, ret |-> CacheValue(p), err |-> ""]
    /\ saved' = SavedAfter(p)
    /\ modified' = ModifiedAfter(p)
    /\ UNCHANGED <<vertices, edges, const_edges, uniqueAttrs>>

call_centers == CallComputed("centers")

call_referenced_vertices == CallComputed("referenced_vertices")

call_sorted_edges == CallComputed("sorted_edges")

InitCache ==
    /\ vertices \in [1..CacheVerts -> Coords]
    /\ edges \in EdgeTables(CacheVerts, CacheRows)
    /\ const_edges = edges
    /\ modified = AllModified
    /\ saved = NothingSaved
    /\ edges_unique_id = <<>>
    /\ edges_unique = NoArray
    /\ edges_unique_inverse = <<>>
    /\ edges_unique_count = <<>>
    /\ outlines = <<>>
    /\ call = NoCall

NextCache ==
    \/ \E i \in 1..CacheVerts : \E x \in Coords : write_vertices(i, x)
    \/ \E p \in 1..(2 * CacheRows) : \E x \in 0..(CacheVerts - 1) : write_edges(p, x)
    \/ \E es \in EdgeTables(CacheVerts, CacheRows) : edges_setter(es)
    \/ call_centers
    \/ call_referenced_vertices
    \/ call_sorted_edges
    \/ get_outlines

SpecCache == InitCache /\ [][NextCache]_vars

EditRows == 2          \* rows of the edge table in the pruning runs

EditCloud == <<0, 2, 4>>        \* the point cloud of the pruning runs

\* number of TRUE entries of mask before position v
CountBefore(mask, v) == Cardinality({u \in 1..(v - 1) : mask[u]})

\* the compaction map numbering the referenced points from 1
CompactionMapFromOne(referenced) ==
    [v \in 1..Len(referenced) |-> IF referenced[v] THEN CountBefore(referenced, v) + 1 ELSE 0]

\* inverse = zeros(len(vertices)); inverse[referenced] = arange(referenced.sum())
CompactionMap(referenced) ==
    [v \in 1..Len(referenced) |-> IF referenced[v] THEN CountBefore(referenced, v) ELSE 0]

\* Vertices.update_vertices(mask, inverse): a new object with the masked
\* points and the table renumbered through inverse
update_vertices(vs, es, mask, inverse) ==
    [vertices |-> MaskSeq(vs, mask),
     edges    |-> [shape |-> es.shape, data |-> [p \in DOMAIN es.data |-> inverse[es.data[p] + 1]]]]

remove_unreferenced_vertices ==
    \E referenced \in {CacheValue("referenced_vertices")} :
        /\ saved' = SavedAfter("referenced_vertices")
        /\ modified' = ModifiedAfter("referenced_vertices")
        /\ call' = [op |-> "remove_unreferenced_vertices", arg |-> <<>>, err |-> "",
                    ret |-> update_vertices(vertices, edges, referenced, CompactionMap(referenced))]
        /\ UNCHANGED <<vertices, edges, const_edges, uniqueAttrs>>

\* a[mask] for a table a and a boolean mask over its rows
MaskRows(a, mask) == FromRows(MaskSeq(Rows(a), mask), a.shape[2])

\* update_elements with elements used as the attribute it is: the rows are
\* selected and assigned; remove_unreferenced_vertices() takes no inplace argument
UpdateElementsSwapFirst(vs, es, mask, inplace) ==
    IF inplace
    THEN [vertices |-> vs, edges |-> MaskRows(es, mask), ret |-> <<>>, err |-> "TypeError"]
    ELSE [vertices |-> vs, edges |-> es, ret |-> <<>>, err |-> "TypeError"]

\* Edges.update_elements: its first statement calls self.elements, which is a
\* property whose value is the edge table, not a method; calling the table
\* raises TypeError before anything is selected or assigned
UpdateElements(vs, es, mask, inplace) ==
    [vertices |-> vs, edges |-> es, ret |-> <<>>, err |-> "TypeError"]

UpdateElementsBody(op, mask, inplace) ==
    \E r \in {UpdateElements(vertices, edges, mask, inplace)} :
        /\ vertices' = r.vertices
        /\ edges' = r.edges
        /\ const_edges' = r.edges
        /\ modified' = IF r.edges = edges THEN modified ELSE ModifiedByWrite("elements")
        /\ call' = [op |-> op, arg |-> [mask |-> mask, inplace |-> inplace],
                    ret |-> r.ret, err |-> r.err,
                    pre |-> [vertices |-> vertices, edges |-> edges]]
        /\ UNCHANGED <<saved, uniqueAttrs>>

update_elements(mask, inplace) == UpdateElementsBody("update_elements", mask, inplace)

\* update_edges(*args, **kwargs): alias of update_elements
update_edges(mask, inplace) == UpdateElementsBody("update_edges", mask, inplace)

InitEdit ==
    /\ vertices = EditCloud
    /\ edges \in EdgeTables(Len(EditCloud), EditRows)
    /\ const_edges = edges
    /\ modified = AllModified
    /\ saved = NothingSaved
    /\ edges_unique_id = <<>>
    /\ edges_unique = NoArray
    /\ edges_unique_inverse = <<>>
    /\ edges_unique_count = <<>>
    /\ outlines = <<>>
    /\ call = NoCall

NextEdit ==
    \/ \E p \in 1..(2 * EditRows) : \E x \in 0..(Len(EditCloud) - 1) : write_edges(p, x)
    \/ remove_unreferenced_vertices
    \/ \E mask \in [1..edges.shape[1] -> BOOLEAN] : \E inplace \in BOOLEAN :
          update_elements(mask, inplace)
    \/ \E mask \in [1..edges.shape[1] -> BOOLEAN] : \E inplace \in BOOLEAN :
          update_edges(mask, inplace)

SpecEdit == InitEdit /\ [][NextEdit]_vars

\* the points some entry of the table refers to
Kept(es) == {es.data[p] : p \in DOMAIN es.data}

\* the number the point v has once the points outside Kept(es) are dropped
NewIndex(es, v) == Cardinality({u \in Kept(es) : u < v})

\* C5: remove_unreferenced_vertices() returns an object whose points are
\* exactly the referenced points in their original order and whose table
\* has the same rows in the same order and orientation, every entry being
\* the compacted index of the point the old entry referred to
C5_Pruned ==
    call.op = "remove_unreferenced_vertices" =>
        /\ call.err = ""
        /\ Len(call.ret.vertices) = Cardinality(Kept(edges))
        /\ \A v \in Kept(edges) : call.ret.vertices[NewIndex(edges, v) + 1] = vertices[v + 1]
        /\ call.ret.edges.shape = edges.shape
        /\ \A p \in DOMAIN edges.data :
              /\ call.ret.edges.data[p] = NewIndex(edges, edges.data[p])
              /\ call.ret.vertices[call.ret.edges.data[p] + 1] = vertices[edges.data[p] + 1]

C5_Witness ==
    /\ call.op = "remove_unreferenced_vertices"
    /\ edges.shape[1] = 2
    /\ 0 \notin Kept(edges)
    /\ Cardinality(Kept(edges)) = 2
    /\ Row(edges, 1)[1] > Row(edges, 1)[2]
    /\ call.ret.edges # edges
    /\ "referenced_vertices" \in saved.has

UpdateCalled == call.op \in {"update_elements", "update_edges"}

\* C6: update_elements(mask, inplace=False) and update_edges(mask, inplace=False)
\* return a new object holding the selected rows over the pruned points, and
\* leave the points and the table of the receiver as they were
C6_ReturnsNewObject ==
    (UpdateCalled /\ ~call.arg.inplace) =>
        /\ call.err = ""
        /\ vertices = call.pre.vertices
        /\ edges = call.pre.edges
        /\ \E sel \in {MaskRows(call.pre.edges, call.arg.mask)} :
              /\ call.ret.edges.shape = sel.shape
              /\ \A p \in DOMAIN sel.data :
                    call.ret.vertices[call.ret.edges.data[p] + 1] = call.pre.vertices[sel.data[p] + 1]
              /\ Len(call.ret.vertices) = Cardinality(Kept(sel))

\* C7: when update_elements(mask, inplace=True) ends in an error, the points
\* and the table of the receiver, and the read-only view, are as before the call
C7_Transactional ==
    (UpdateCalled /\ call.arg.inplace /\ call.err # "") =>
        /\ vertices = call.pre.vertices
        /\ edges = call.pre.edges
        /\ const_edges = call.pre.edges

C7_Witness ==
    /\ call.op = "update_elements"
    /\ call.arg.inplace
    /\ call.err = "TypeError"
    /\ call.pre.edges.shape[1] = 2
    /\ call.arg.mask = <<TRUE, FALSE>>
    /\ edges = call.pre.edges

(***************************************************************************)
(* Assignment of the edge table: constructor, edges setter, elements setter *)
(***************************************************************************)
SetLen == 2            \* length of each dimension but the last of the arrays assigned

None == [shape |-> <<-1>>, data |-> <<>>]      \* the argument that is not given

RECURSIVE Prod(_)
Prod(s) == IF s = <<>> THEN 1 ELSE Head(s) * Prod(Tail(s))

\* shapes of the arrays handed to the setters: 1-, 2- and 3-dimensional,
\* the last dimension of a table being 1, 2 or 3
SetShapes ==
    {<<n>> : n \in 0..SetLen}
        \cup {<<m, k>> : m \in 0..SetLen, k \in 1..3}
        \cup {<<1, m, 2>> : m \in 1..SetLen}

SetArrays == UNION {{[shape |-> sh, data |-> d] : d \in [1..Prod(sh) -> 0..1]} : sh \in SetShapes}

\* Edges.__init__(vertices, edges, elements)
init(vs, es, elems) ==
    /\ call.op = "new"
    /\ vertices' = vs
    /\ IF es # None
       THEN /\ edges' = make_tracked_array(es)
            /\ const_edges' = edges'
       ELSE IF elems # None
       THEN /\ edges' = make_tracked_array(elems)
            /\ const_edges' = edges'
       ELSE UNCHANGED <<edges, const_edges>>
    /\ modified' = AllModified
    /\ call' = [op |-> "__init__", arg |-> IF es # None THEN es ELSE elems, ret |-> <<>>, err |-> ""]
    /\ UNCHANGED <<saved, uniqueAttrs>>

InitSetter ==
    /\ vertices = <<>>
    /\ edges = NoArray
    /\ const_edges = NoArray
    /\ modified = AllModified
    /\ saved = NothingSaved
    /\ edges_unique_id = <<>>
    /\ edges_unique = NoArray
    /\ edges_unique_inverse = <<>>
    /\ edges_unique_count = <<>>
    /\ outlines = <<>>
    /\ call = NoCall

NextSetter ==
    \/ \E es \in SetArrays \cup {None} : init(<<0, 2>>, es, None)
    \/ \E elems \in SetArrays : init(<<0, 2>>, None, elems)
    \/ \E es \in SetArrays : edges_setter(es)
    \/ \E elems \in SetArrays : elements_setter(elems)

SpecSetter == InitSetter /\ [][NextSetter]_vars

\* an array that is no table of edges: not 2-dimensional, or rows not of width 2
BadShape(a) == Len(a.shape) # 2 \/ a.shape[2] # 2

\* C9: assigning an array that is not 2-dimensional or whose rows are not of
\* width 2 (edges setter, elements setter, constructor) fails with a
\* ShapeError and leaves the stored table and its read-only view as they were
C9_ShapeErrorKeepsTable ==
    [][(/\ call'.op \in {"__init__", "edges.setter", "elements.setter"}
        /\ call'.arg # None
        /\ BadShape(call'.arg))
          => (call'.err = "ShapeError" /\ edges' = edges /\ const_edges' = const_edges)]_vars

(***************************************************************************)
(* dashed()                                                                *)
(* Points lie on a line at integer coordinates, so the length of an edge   *)
(* is the absolute difference of its end points, and spacing is a positive *)
(* integer: length // (spacing * 1.5) is the integer quotient of           *)
(* 2 * length by 3 * spacing.                                              *)
(***************************************************************************)
DashRows == 2          \* rows of the edge table in the dashed() runs
MaxSpacing == 2        \* largest spacing in the dashed() runs

DashCloud == <<0, 1, 2, 3>>     \* the point cloud of the dashed() runs

Abs(x) == IF x < 0 THEN -x ELSE x

\* np.linalg.norm(v0s - v1s, axis=1)
Distances(vs, es) == [i \in 1..es.shape[1] |-> Abs(vs[Row(es, i)[1] + 1] - vs[Row(es, i)[2] + 1])]

\* the number of points per edge as the quotient rounded up, at least 3
LinspacesRoundUp(distances, spacing) ==
    [i \in DOMAIN distances |->
        LET up == (2 * distances[i] + 3 * spacing - 1) \div (3 * spacing)
        IN  (IF up < 1 THEN 1 ELSE up) * 3]

\* linspaces = (((distances // (spacing * 1.5)) + 1) * 3).astype(np.int32);
\* the values of the runs are far below 2^31, where the cast changes nothing
Linspaces(distances, spacing) ==
    [i \in DOMAIN distances |-> (((2 * distances[i]) \div (3 * spacing)) + 1) * 3]

\* np.linspace(v0, v1, lins) for edge number e: point t of lins lies at
\* v0 + t * (v1 - v0) / (lins - 1), kept as numerator and denominator;
\* src and k record the edge and the position the point was placed at
Linspace(e, v0, v1, lins) ==
    [t \in 1..lins |->
        [src |-> e, k |-> t - 1, num |-> v0 * (lins - 1) + (t - 1) * (v1 - v0), den |-> lins - 1]]

\* np.vstack of the per-edge point lists, edges first to last
RECURSIVE VStack(_)
VStack(blocks) == IF blocks = <<>> THEN <<>> ELSE Head(blocks) \o VStack(Tail(blocks))

\* the mask with mask[2::3] = False
MidpointMaskFromTwo(n) == [q \in 1..n |-> (q - 1) % 3 # 2]

\* mask = ones(n); mask[1::3] = False
MidpointMask(n) == [q \in 1..n |-> (q - 1) % 3 # 1]

\* utils.connec.range_to_edges((0, n), closed=False): [i, i + 1] for i < n - 1
range_to_edges(n) == [i \in 1..(n - 1) |-> <<i - 1, i>>]

\* a[::2]
EveryOther(a) == [i \in 1..((Len(a) + 1) \div 2) |-> a[2 * i - 1]]

\* Edges.dashed(spacing); np.vstack raises ValueError on an empty list
Dashed(vs, es, spacing) ==
    LET distances == Distances(vs, es)
        linspaces == Linspaces(distances, spacing)
        stacked == VStack([i \in 1..es.shape[1] |->
                      Linspace(i - 1, vs[Row(es, i)[1] + 1], vs[Row(es, i)[2] + 1], linspaces[i])])
        new_vs == MaskSeq(stacked, MidpointMask(Len(stacked)))
        new_es == EveryOther(range_to_edges(Len(new_vs)))
    IN  IF es.shape[1] = 0
        THEN [err |-> "ValueError", ret |-> <<>>]
        ELSE [err |-> "",
              ret |-> [linspaces |-> linspaces, vertices |-> new_vs, edges |-> FromRows(new_es, 2)]]

dashed(spacing) ==
    \E r \in {Dashed(vertices, edges, spacing)} :
        /\ call' = [op |-> "dashed", arg |-> spacing, ret |-> r.ret, err |-> r.err]
        /\ UNCHANGED <<vertices, edges, const_edges, modified, saved, uniqueAttrs>>

InitDashed ==
    /\ vertices = DashCloud
    /\ edges \in EdgeTables(Len(DashCloud), DashRows)
    /\ const_edges = edges
    /\ modified = AllModified
    /\ saved = NothingSaved
    /\ edges_unique_id = <<>>
    /\ edges_unique = NoArray
    /\ edges_unique_inverse = <<>>
    /\ edges_unique_count = <<>>
    /\ outlines = <<>>
    /\ call = NoCall

NextDashed == \E spacing \in 1..MaxSpacing : dashed(spacing)

SpecDashed == InitDashed /\ [][NextDashed]_vars

DashedDone == call.op = "dashed" /\ call.err = ""

\* length of edge i (1-based) of the receiver
EdgeLength(i) == Abs(vertices[Row(edges, i)[1] + 1] - vertices[Row(edges, i)[2] + 1])

\* round_up(L / (spacing * 1.5)) * 3, raised to 3 when below
RoundUpCount(L, spacing) ==
    LET up == (2 * L + 3 * spacing - 1) \div (3 * spacing)
    IN  IF up < 1 THEN 3 ELSE up * 3

\* C8 as stated: the number of points placed on every edge of length L is
\* round_up(L / (spacing * 1.5)) * 3, raised to 3 when below, also when L is
\* an exact multiple of spacing * 1.5
C8_RoundUp ==
    DashedDone =>
        \A i \in 1..edges.shape[1] : call.ret.linspaces[i] = RoundUpCount(EdgeLength(i), call.arg)

\* C8 amended: the number c of points placed on an edge of length L is the
\* multiple of 3, at least 3, with (c/3 - 1) <= L / (spacing * 1.5) < c/3,
\* that is (floor(L / (spacing * 1.5)) + 1) * 3: the value of C8 when L is
\* no positive multiple of spacing * 1.5, and 3 more than it when L is one
C8_FloorPlusOne ==
    DashedDone =>
        \A i \in 1..edges.shape[1] :
            LET c == call.ret.linspaces[i]
                L == EdgeLength(i)
            IN  /\ c % 3 = 0
                /\ c >= 3
                /\ ((c \div 3) - 1) * 3 * call.arg <= 2 * L
                /\ 2 * L < (c \div 3) * 3 * call.arg
                /\ c = IF L > 0 /\ (2 * L) % (3 * call.arg) = 0
                       THEN RoundUpCount(L, call.arg) + 3
                       ELSE RoundUpCount(L, call.arg)

C8_Witness ==
    /\ DashedDone
    /\ edges.shape[1] = 2
    /\ EdgeLength(1) = 0
    /\ call.ret.linspaces[1] = 3
    /\ EdgeLength(2) = 3
    /\ call.arg = 2
    /\ call.ret.linspaces[2] = 6

\* C10: every edge of the result joins two points placed on the same source
\* edge, the points 3j and 3j+2 of its evenly spaced sequence, and a source
\* edge with c placed points yields exactly c/3 edges of the result
C10_DashesWithinEdges ==
    DashedDone =>
        /\ \A d \in 1..call.ret.edges.shape[1] :
              LET a == call.ret.vertices[Row(call.ret.edges, d)[1] + 1]
                  b == call.ret.vertices[Row(call.ret.edges, d)[2] + 1]
              IN  /\ a.src = b.src
                  /\ a.k % 3 = 0
                  /\ b.k = a.k + 2
        /\ \A i \in 1..edges.shape[1] :
              Cardinality({d \in 1..call.ret.edges.shape[1] :
                              call.ret.vertices[Row(call.ret.edges, d)[1] + 1].src = i - 1})
                  = call.ret.linspaces[i] \div 3

C10_Witness ==
    /\ DashedDone
    /\ edges.shape[1] = 2
    /\ call.ret.linspaces[1] = 6
    /\ call.ret.linspaces[2] = 3
    /\ call.ret.edges.shape[1] = 3
    /\ Row(call.ret.edges, 3) = <<4, 5>>

====
